---- MODULE Spec2Model ----
(***************************************************************************)
(* Raw Material Estimator (src/estimator.py): the estimation arithmetic of *)
(* process_data, the job-numbering scheme of generate_job_number, and the  *)
(* submissions that save one bill of material (BOM) per job.               *)
(*                                                                         *)
(* Text is a sequence of one-character strings, so that str(), slicing,    *)
(* split("_"), int() and zfill() are computed as Python computes them.     *)
(* Lengths are integers in micrometres (1 mm = 1000), weights in           *)
(* hundredths of the program's unit.                                       *)
(***************************************************************************)
EXTENDS Integers, Sequences, FiniteSets, TLC

VARIABLES
    today,      \* datetime.date.today(): [year, month, day]
    fs,         \* the file system: directory -> file names in creation order
    config,     \* SAVE_DIRECTORY and BACKUP_DIRECTORY of the environment
    catalog,    \* AVAILABLE_CYLINDERS and AVAILABLE_PAPER_ROLLS
    arg,        \* the input of the function under check
    ret,        \* its outcome
    pc,         \* each application's position
    form,       \* each application's input fields
    b8,         \* the job number written into cell B8 of the open workbook
    fname,      \* the job number of new_filename
    label,      \* the job number shown by job_number_label
    err,        \* the error the last submission reported ("" when none)
    seen,       \* history: the date and latest file of the last scan of a submission
    saves       \* history: the (application, job number) of every wb.save

vars == <<today, fs, config, catalog, arg, ret, pc, form, b8, fname, label, err,
          seen, saves>>

(***************************************************************************)
(* Bounds                                                                  *)
(***************************************************************************)
FirstYear == 2023
YearSpan == 1
MaxJobs == 2

(***************************************************************************)
(* Text                                                                    *)
(***************************************************************************)
DigitChars == <<"0", "1", "2", "3", "4", "5", "6", "7", "8", "9">>

DigitSet == {DigitChars[i] : i \in 1..10}

DigitChar(d) == DigitChars[d + 1]

DigitVal(c) == CHOOSE d \in 0..9 : DigitChars[d + 1] = c

\* str(n) of a non-negative int
RECURSIVE StrNat(_)
StrNat(n) == IF n < 10 THEN <<DigitChar(n)>>
             ELSE StrNat(n \div 10) \o <<DigitChar(n % 10)>>

\* str(n)
Str(n) == IF n < 0 THEN <<"-">> \o StrNat(0 - n) ELSE StrNat(n)

\* s[-2:]
LastTwo(s) == IF Len(s) <= 2 THEN s ELSE SubSeq(s, Len(s) - 1, Len(s))

\* s.split(sep): the parts between the occurrences of sep
RECURSIVE SplitFrom(_, _, _, _)
SplitFrom(s, sep, i, cur) ==
    IF i > Len(s) THEN <<cur>>
    ELSE IF s[i] = sep THEN <<cur>> \o SplitFrom(s, sep, i + 1, <<>>)
    ELSE SplitFrom(s, sep, i + 1, Append(cur, s[i]))

Split(s, sep) == SplitFrom(s, sep, 1, <<>>)

\* the value of a run of decimal digits
RECURSIVE DigitsVal(_)
DigitsVal(s) == IF s = <<>> THEN 0
                ELSE 10 * DigitsVal(SubSeq(s, 1, Len(s) - 1)) + DigitVal(s[Len(s)])

AllDigits(s) == s # <<>> /\ \A i \in 1..Len(s) : s[i] \in DigitSet

HasSign(s) == s # <<>> /\ s[1] \in {"+", "-"}

\* whether int(s) succeeds: an optional sign, then one or more digits
IsIntLiteral(s) == AllDigits(IF HasSign(s) THEN Tail(s) ELSE s)

\* int(s), for IsIntLiteral(s)
IntOf(s) == IF HasSign(s)
            THEN (IF s[1] = "-" THEN 0 - DigitsVal(Tail(s)) ELSE DigitsVal(Tail(s)))
            ELSE DigitsVal(s)

Zeros(k) == [i \in 1..k |-> "0"]

\* s.zfill(width): zeros after the sign, nothing when s is already that long
ZFill(s, width) ==
    IF Len(s) >= width THEN s
    ELSE IF HasSign(s) THEN <<s[1]>> \o Zeros(width - Len(s)) \o Tail(s)
    ELSE Zeros(width - Len(s)) \o s

Xlsx == <<".", "x", "l", "s", "x">>

\* f"{job_number}.xlsx"
FileNameOf(job) == job \o Xlsx

\* fnmatch of a base name against "*.xlsx"
MatchesXlsx(name) ==
    /\ Len(name) >= Len(Xlsx)
    /\ SubSeq(name, Len(name) - Len(Xlsx) + 1, Len(name)) = Xlsx
    /\ name[1] # "."

\* os.path.splitext(name)[0]: the name up to its last dot
LastDot(name) ==
    LET dots == {i \in 2..Len(name) : name[i] = "."}
    IN  IF dots = {} THEN 0 ELSE CHOOSE i \in dots : \A j \in dots : j <= i

SplitExtRoot(name) ==
    IF LastDot(name) = 0 THEN name ELSE SubSeq(name, 1, LastDot(name) - 1)

(***************************************************************************)
(* generate_job_number                                                     *)
(***************************************************************************)
ScanDir == "C:/Backup"

Ok(v) == [kind |-> "ok", value |-> v]

Raised(e) == [kind |-> e, value |-> <<>>]

Pending == [kind |-> "pending", value |-> <<>>]

\* financial_year; (current_year - 1)[-2:] subscripts an int: TypeError
FinancialYear(date) ==
    IF date.month >= 4
    THEN Ok(LastTwo(Str(date.year)) \o <<"-">> \o LastTwo(Str(date.year + 1)))
    ELSE Raised("TypeError")

\* glob.glob("C:/Backup/*.xlsx")
Glob(files) == SelectSeq(files[ScanDir], MatchesXlsx)

\* max(files, key=os.path.getctime): the file created last
LatestFile(files) == Glob(files)[Len(Glob(files))]

\* sequential_number, given the base name of the latest file
SequentialNumber(file_name, financial_year) ==
    LET parts == Split(file_name, "_")
    IN  IF Len(parts) # 2 THEN Raised("ValueError")
        ELSE IF parts[1] = financial_year
             THEN (IF IsIntLiteral(parts[2])
                   THEN Ok(ZFill(Str(IntOf(parts[2]) + 1), 7))
                   ELSE Raised("ValueError"))
             ELSE Ok(<<"0", "0", "0", "0", "0", "0", "1">>)

\* a variant that numbers a job by the count of the files scanned
generate_job_number_by_count(date, files) ==
    LET fy == FinancialYear(date)
    IN  IF fy.kind # "ok" THEN fy
        ELSE Ok(fy.value \o <<"_">> \o ZFill(Str(Len(Glob(files)) + 1), 7))

\* the characters of a file name, in the order of their code points
CodeOrder == <<"+", "-", ".", "0", "1", "2", "3", "4", "5", "6", "7", "8", "9", "_",
               "a", "b", "c", "d", "e", "f", "g", "h", "i", "j", "k", "l", "m",
               "n", "o", "p", "q", "r", "s", "t", "u", "v", "w", "x", "y", "z">>

CodeOf(c) == CHOOSE i \in 1..Len(CodeOrder) : CodeOrder[i] = c

\* a > b as Python compares two str
RECURSIVE GreaterText(_, _)
GreaterText(a, b) ==
    IF a = <<>> THEN FALSE
    ELSE IF b = <<>> THEN TRUE
    ELSE IF a[1] # b[1] THEN CodeOf(a[1]) > CodeOf(b[1])
    ELSE GreaterText(Tail(a), Tail(b))

\* a variant that numbers a job from the greatest file name, max(files)
generate_job_number_from_greatest(date, files) ==
    LET fy == FinancialYear(date)
        names == Glob(files)
        top == CHOOSE i \in 1..Len(names) :
                   \A j \in 1..Len(names) : ~GreaterText(names[j], names[i])
        seq == IF names # <<>>
               THEN SequentialNumber(SplitExtRoot(names[top]), fy.value)
               ELSE Ok(<<"0", "0", "0", "0", "0", "0", "1">>)
    IN  IF fy.kind # "ok" THEN fy
        ELSE IF seq.kind # "ok" THEN seq
        ELSE Ok(fy.value \o <<"_">> \o seq.value)

generate_job_number(date, files) ==
    LET fy == FinancialYear(date)
        seq == IF Glob(files) # <<>>
               THEN SequentialNumber(SplitExtRoot(LatestFile(files)), fy.value)
               ELSE Ok(<<"0", "0", "0", "0", "0", "0", "1">>)
    IN  IF fy.kind # "ok" THEN fy
        ELSE IF seq.kind # "ok" THEN seq
        ELSE Ok(fy.value \o <<"_">> \o seq.value)

(***************************************************************************)
(* The catalog and the calculation of process_data                         *)
(***************************************************************************)
\* sorted(xs) of a set of distinct values
RECURSIVE Sorted(_)
Sorted(S) == IF S = {} THEN <<>>
             ELSE LET m == CHOOSE x \in S : \A y \in S : x <= y
                  IN  <<m>> \o Sorted(S \ {m})

Abs(x) == IF x < 0 THEN 0 - x ELSE x

\* min(xs, key): the first element with the least key
RECURSIVE MinByFrom(_, _, _, _)
MinByFrom(xs, target, i, best) ==
    IF i > Len(xs) THEN best
    ELSE IF Abs(xs[i] - target) < Abs(best - target)
         THEN MinByFrom(xs, target, i + 1, xs[i])
         ELSE MinByFrom(xs, target, i + 1, best)

\* a variant that keeps the last of the equally near elements
RECURSIVE MinByLastFrom(_, _, _, _)
MinByLastFrom(xs, target, i, best) ==
    IF i > Len(xs) THEN best
    ELSE IF Abs(xs[i] - target) <= Abs(best - target)
         THEN MinByLastFrom(xs, target, i + 1, xs[i])
         ELSE MinByLastFrom(xs, target, i + 1, best)

chosen_cylinder_last_nearest(cylinders, act_height) ==
    IF cylinders = <<>> THEN Raised("ValueError")
    ELSE Ok(MinByLastFrom(cylinders, act_height, 2, cylinders[1]))

\* min(AVAILABLE_CYLINDERS, key=lambda x: abs(x - act_height_mm))
chosen_cylinder(cylinders, act_height) ==
    IF cylinders = <<>> THEN Raised("ValueError")
    ELSE Ok(MinByFrom(cylinders, act_height, 2, cylinders[1]))

\* max(xs), min(xs) of a non-empty list
RECURSIVE MaxOf(_)
MaxOf(xs) == IF Len(xs) = 1 THEN xs[1]
             ELSE LET m == MaxOf(Tail(xs)) IN IF xs[1] >= m THEN xs[1] ELSE m

RECURSIVE MinOf(_)
MinOf(xs) == IF Len(xs) = 1 THEN xs[1]
             ELSE LET m == MinOf(Tail(xs)) IN IF xs[1] <= m THEN xs[1] ELSE m

\* [x for x in AVAILABLE_PAPER_ROLLS if x <= act_width_mm]
SmallerRolls(rolls, act_width) ==
    LET fits(x) == x <= act_width IN SelectSeq(rolls, fits)

\* [x for x in AVAILABLE_PAPER_ROLLS if x > act_width_mm]
BiggerRolls(rolls, act_width) ==
    LET over(x) == x > act_width IN SelectSeq(rolls, over)

\* the tolerance of 5 mm below act_width_mm, in micrometres
RollTolerance == 5000

\* a variant whose tolerance excludes exactly 5 mm
chosen_paper_roll_strict(rolls, act_width) ==
    LET smaller == SmallerRolls(rolls, act_width)
        bigger == BiggerRolls(rolls, act_width)
    IN  IF smaller = <<>> \/ bigger = <<>> THEN Raised("ValueError")
        ELSE IF act_width - MaxOf(smaller) < RollTolerance
             THEN Ok(MaxOf(smaller))
             ELSE Ok(MinOf(bigger))

\* chosen_paper_roll; max() and min() of an empty list raise ValueError
chosen_paper_roll(rolls, act_width) ==
    LET smaller == SmallerRolls(rolls, act_width)
        bigger == BiggerRolls(rolls, act_width)
    IN  IF smaller = <<>> \/ bigger = <<>> THEN Raised("ValueError")
        ELSE IF act_width - MaxOf(smaller) <= RollTolerance
             THEN Ok(MaxOf(smaller))
             ELSE Ok(MinOf(bigger))

\* act_height_mm, from hundredths of an inch to micrometres:
\* (h_in + b_in / 2 + 1) * 25.4
act_height_mm(h_in, b_in) == (2 * h_in + b_in + 200) * 127

\* act_width_mm: (2 * (w_in + b_in) + 1) * 25.4
act_width_mm(w_in, b_in) == (2 * (w_in + b_in) + 100) * 254

\* wpb in hundredths: cylinder (mm) * roll (mm) * 1e-6 * gsm
WeightPerBag(cylinder, roll, gsm) ==
    ((cylinder \div 1000) * (roll \div 1000) * gsm) \div 10000

\* the values process_data computes from the entries, before any file is touched
Calculate(cat, f) ==
    LET act_height == act_height_mm(f.height[1], f.bottom[1])
        act_width == act_width_mm(f.width[1], f.bottom[1])
        cyl == chosen_cylinder(cat.cylinders, act_height)
        roll == chosen_paper_roll(cat.rolls, act_width)
        wpb == WeightPerBag(cyl.value, roll.value, f.gsm[1])
        quantity == f.quantity[1]
    IN  IF cyl.kind # "ok" THEN cyl
        ELSE IF roll.kind # "ok" THEN roll
        ELSE Ok([act_height |-> act_height,
                 chosen_cylinder |-> cyl.value,
                 chosen_paper_roll |-> roll.value,
                 wpb |-> wpb,
                 total_finish_weight |-> (wpb * quantity) \div 1000,
                 total_weight |-> (((wpb * quantity) \div 1000) * 100) \div 94,
                 side_glue |-> ((wpb * quantity) \div 1000) \div 100,
                 bottom_glue |-> (((wpb * quantity) \div 1000) * 25) \div 1000,
                 ink |-> ((wpb * quantity) \div 1000) \div 100])

\* a variant that checks that every entry is a number, and no range
validate_fields_unranged(f) ==
    /\ f.width # <<>>
    /\ f.bottom # <<>>
    /\ f.height # <<>>
    /\ f.gsm # <<>>
    /\ f.quantity # <<>>

\* validate_fields on the job details: float()/int() of each entry, then its range
\* (an entry is <<v>>, or <<>> for text that is no number)
validate_fields(f) ==
    /\ f.width # <<>> /\ 525 <= f.width[1] /\ f.width[1] <= 1300
    /\ f.bottom # <<>> /\ 250 <= f.bottom[1] /\ f.bottom[1] <= 700
    /\ f.height # <<>> /\ 675 <= f.height[1] /\ f.height[1] <= 1775
    /\ f.gsm # <<>> /\ 55 <= f.gsm[1] /\ f.gsm[1] <= 150
    /\ f.quantity # <<>> /\ f.quantity[1] >= 10000

(***************************************************************************)
(* The environment: dates, directories, catalogs                           *)
(***************************************************************************)
Procs == {1, 2}

Years == (FirstYear..(FirstYear + YearSpan)) \cup {2099}

DaysIn(month) == IF month = 2 THEN 28
                 ELSE IF month \in {4, 6, 9, 11} THEN 30 ELSE 31

\* the first and the last day of every month
Dates == UNION {{[year |-> y, month |-> m, day |-> d] : d \in {1, DaysIn(m)}} :
                  y \in Years, m \in 1..12}

Dirs == {"C:/Backup", "D:/BOM", "D:/Backup"}

EmptyFs == [d \in Dirs |-> <<>>]

\* "YY-YY" of the fiscal year that starts in April of year y
LabelOf(y) == <<DigitChar((y % 100) \div 10), DigitChar(y % 10), "-",
                DigitChar(((y + 1) % 100) \div 10), DigitChar((y + 1) % 10)>>

Numbers == {<<"0", "0", "0", "0", "0", "0", "1">>,
            <<"0", "0", "0", "0", "0", "4", "2">>,
            <<"9", "9", "9", "9", "9", "9", "9">>}

\* job numbers as the program writes them
WellFormedIds == {LabelOf(y) \o <<"_">> \o n :
                    y \in (FirstYear - 1)..(FirstYear + YearSpan), n \in Numbers}

\* other base names a backup directory can hold
MalformedIds == {<<"b", "a", "d", "f", "o", "r", "m", "a", "t">>,
                 LabelOf(FirstYear) \o <<"_", "0", "0", "x", "4", "2">>,
                 LabelOf(FirstYear) \o <<"_">>,
                 LabelOf(FirstYear) \o <<"_", "0", "0", "_", "4", "2">>}

PriorFiles == {FileNameOf(id) : id \in WellFormedIds \cup MalformedIds}
              \cup {<<"n", "o", "t", "e", "s", ".", "t", "x", "t">>}

\* the directory listings of at most two files, in creation order
Listings == ({<<>>} \cup {<<a>> : a \in PriorFiles}
             \cup {<<a, b>> : a \in PriorFiles, b \in PriorFiles})
            \ {<<a, a>> : a \in PriorFiles}

\* AVAILABLE_CYLINDERS, AVAILABLE_PAPER_ROLLS: each column, sorted
LoadCatalog(cylinder_column, roll_column) ==
    [cylinders |-> Sorted(cylinder_column), rolls |-> Sorted(roll_column)]

NoCatalog == LoadCatalog({}, {})

\* the job-detail entries of a form that passes validate_fields
ValidForms == [width : {<<525>>, <<1300>>}, bottom : {<<250>>, <<700>>},
               height : {<<675>>, <<1775>>}, gsm : {<<55>>, <<150>>},
               quantity : {<<10000>>, <<50000>>}]

BlankForm == [width |-> <<>>, bottom |-> <<>>, height |-> <<>>, gsm |-> <<>>,
              quantity |-> <<>>]

ActHeights == {50000, 100000, 149000, 150000, 151000, 190000, 250000, 300000, 400000}

ActWidths == {290000, 300000, 304000, 305000, 305001, 306000, 310000, 315000,
              316000, 400000, 405000}

DefaultConfig == [save |-> "D:/BOM", backup |-> "C:/Backup"]

Off == [p \in Procs |-> "off"]

NoText == [p \in Procs |-> <<>>]

NoError == [p \in Procs |-> ""]

Unscanned == [date |-> [year |-> 0, month |-> 0, day |-> 0], latest |-> <<>>]

NoScan == [p \in Procs |-> Unscanned]

\* what a scan of the directory on a date observes: the date and the file
\* created last (<<>> when there is none)
Scan(date, files) ==
    [date |-> date,
     latest |-> IF Glob(files) = <<>> THEN <<>> ELSE LatestFile(files)]

(***************************************************************************)
(* The functions on their own: the inputs are drawn, then the function is  *)
(* applied once                                                            *)
(***************************************************************************)
InitIdle ==
    /\ pc = Off
    /\ form = [p \in Procs |-> BlankForm]
    /\ b8 = NoText
    /\ fname = NoText
    /\ label = NoText
    /\ err = NoError
    /\ seen = NoScan
    /\ saves = <<>>
    /\ config = DefaultConfig
    /\ ret = Pending

InitJobNumber ==
    /\ InitIdle
    /\ arg = [fn |-> "generate_job_number"]
    /\ today \in Dates
    /\ fs \in {[EmptyFs EXCEPT ![ScanDir] = l] : l \in Listings}
    /\ catalog = NoCatalog

InitCylinder ==
    /\ InitIdle
    /\ today = CHOOSE d \in Dates : TRUE
    /\ fs = EmptyFs
    /\ catalog \in {LoadCatalog(c, {}) : c \in SUBSET {100000, 200000, 300000}}
    /\ arg \in [fn : {"cylinder"}, act_height : ActHeights]

InitRoll ==
    /\ InitIdle
    /\ today = CHOOSE d \in Dates : TRUE
    /\ fs = EmptyFs
    /\ catalog \in {LoadCatalog({}, r) : r \in SUBSET {300000, 310000, 400000}}
    /\ arg \in [fn : {"roll"}, act_width : ActWidths]

InitCalculate ==
    /\ InitIdle
    /\ today = CHOOSE d \in Dates : TRUE
    /\ fs = EmptyFs
    /\ catalog \in {LoadCatalog(c, r) : c \in SUBSET {250000, 400000, 560000},
                                        r \in SUBSET {415000, 700000, 1050000}}
    /\ arg \in [fn : {"calculate"}, form : ValidForms]

InitPure == InitJobNumber \/ InitCylinder \/ InitRoll \/ InitCalculate

Unchanged == UNCHANGED <<today, fs, config, catalog, arg, pc, form, b8, fname,
                         label, err, seen, saves>>

JobNumberCall ==
    /\ arg.fn = "generate_job_number" /\ ret = Pending
    /\ ret' = generate_job_number(today, fs)
    /\ Unchanged

CylinderCall ==
    /\ arg.fn = "cylinder" /\ ret = Pending
    /\ ret' = chosen_cylinder(catalog.cylinders, arg.act_height)
    /\ Unchanged

RollCall ==
    /\ arg.fn = "roll" /\ ret = Pending
    /\ ret' = chosen_paper_roll(catalog.rolls, arg.act_width)
    /\ Unchanged

CalculateCall ==
    /\ arg.fn = "calculate" /\ ret = Pending
    /\ ret' = Calculate(catalog, arg.form)
    /\ Unchanged

NextPure == JobNumberCall \/ CylinderCall \/ RollCall \/ CalculateCall

SpecPure == InitPure /\ [][NextPure]_vars

(***************************************************************************)
(* Job numbering: what is claimed of generate_job_number                   *)
(***************************************************************************)
\* the two last decimal digits of a year
TwoDigits(y) == <<DigitChar((y % 100) \div 10), DigitChar(y % 10)>>

\* the fiscal-year label a date belongs to: April to March
ClaimedFiscalYear(date) ==
    IF date.month >= 4
    THEN TwoDigits(date.year) \o <<"-">> \o TwoDigits(date.year + 1)
    ELSE TwoDigits(date.year - 1) \o <<"-">> \o TwoDigits(date.year)

\* n in decimal, padded with zeros to at least `width` digits
RECURSIVE PadDigits(_, _)
PadDigits(n, width) ==
    IF n < 10 /\ width <= 1 THEN <<DigitChar(n)>>
    ELSE PadDigits(n \div 10, width - 1) \o <<DigitChar(n % 10)>>

JobNumberDone == arg.fn = "generate_job_number" /\ ret # Pending

HasPrior == Glob(fs) # <<>>

\* the most recently created prior identifier, and its parts
PriorId == SplitExtRoot(LatestFile(fs))

PriorParts == Split(PriorId, "_")

PriorParses == Len(PriorParts) = 2 /\ IsIntLiteral(PriorParts[2])

SameYearCase ==
    HasPrior /\ PriorParses /\ PriorParts[1] = ClaimedFiscalYear(today)

ResetCase ==
    \/ ~HasPrior
    \/ HasPrior /\ PriorParses /\ PriorParts[1] # ClaimedFiscalYear(today)

MalformedCase == HasPrior /\ ~PriorParses

\* C1: when the latest prior identifier parses to (file_year, file_number) and
\* file_year is the current fiscal-year label, the job number returned is that
\* label, "_", and file_number + 1 padded with zeros to 7 digits.
C1_SameYearIncrements ==
    (JobNumberDone /\ SameYearCase) =>
        ret = Ok(ClaimedFiscalYear(today) \o <<"_">>
                 \o PadDigits(IntOf(PriorParts[2]) + 1, 7))

\* C3: with no prior identifier, or a latest prior identifier of another fiscal
\* year, the job number returned is the current label followed by "_0000001".
C3_OtherYearResets ==
    (JobNumberDone /\ ResetCase) =>
        ret = Ok(ClaimedFiscalYear(today) \o <<"_">> \o PadDigits(1, 7))

\* C4: on every date a job number is returned, and it starts with the label
\* "{YY}-{YY+1}" from April on and "{YY-1}-{YY}" from January to March (so that
\* March 31 and April 1 of one year give different labels).
C4_FiscalYearLabel ==
    (JobNumberDone /\ ~MalformedCase) =>
        /\ ret.kind = "ok"
        /\ SubSeq(ret.value, 1, 5) = ClaimedFiscalYear(today)

\* C5: a latest prior identifier that does not split into exactly two parts on
\* "_", or whose number is no integer, ends generate_job_number in
\* MalformedJobIdentifierError: no other error, and no job number.
C5_MalformedIsReported ==
    (JobNumberDone /\ MalformedCase) => ret.kind = "MalformedJobIdentifierError"

(***************************************************************************)
(* Equipment selection and the calculation: what is claimed                *)
(***************************************************************************)
Elements(xs) == {xs[i] : i \in 1..Len(xs)}

RollDone == arg.fn = "roll" /\ ret # Pending

RollsBelow == {x \in Elements(catalog.rolls) : x <= arg.act_width}

RollsAbove == {x \in Elements(catalog.rolls) : x > arg.act_width}

Greatest(S) == CHOOSE x \in S : \A y \in S : y <= x

Least(S) == CHOOSE x \in S : \A y \in S : x <= y

\* C6: when a roll <= act_width_mm and a roll > act_width_mm both exist, the
\* chosen roll is the largest roll below when it is at most 5 mm below the width
\* (5 mm included), and the smallest roll above otherwise.
C6_RollWithinTolerance ==
    (RollDone /\ RollsBelow # {} /\ RollsAbove # {}) =>
        ret = Ok(IF arg.act_width - Greatest(RollsBelow) <= 5000
                 THEN Greatest(RollsBelow) ELSE Least(RollsAbove))

\* catalog {300, 310, 400}, width 305: the roll 300, exactly 5 mm below, is chosen
C6_Witness ==
    /\ RollDone
    /\ catalog.rolls = <<300000, 310000, 400000>>
    /\ arg.act_width = 305000
    /\ ret = Ok(300000)

\* C7: a width below the smallest roll, or at or above the largest one, is
\* rejected with NoSuitableRollError.
C7_OutOfBoundsIsReported ==
    (RollDone /\ (RollsBelow = {} \/ RollsAbove = {})) =>
        ret.kind = "NoSuitableRollError"

CylinderDone == arg.fn = "cylinder" /\ ret # Pending

Distance(x) == Abs(x - arg.act_height)

Nearest == {x \in Elements(catalog.cylinders) :
              \A y \in Elements(catalog.cylinders) : Distance(x) <= Distance(y)}

\* C8: of a non-empty catalog the chosen cylinder is an element at the least
\* absolute distance from act_height_mm, and of two equally near elements the one
\* that comes first in the ascending catalog.
C8_NearestCylinder ==
    (CylinderDone /\ catalog.cylinders # <<>>) => ret = Ok(Least(Nearest))

\* catalog {100, 200, 300}, height 150: 100 and 200 are equally near, 100 is chosen
C8_Witness ==
    /\ CylinderDone
    /\ catalog.cylinders = <<100000, 200000, 300000>>
    /\ arg.act_height = 150000
    /\ ret = Ok(100000)

CalculateDone == arg.fn = "calculate" /\ ret # Pending

NonNegativeResult(r) ==
    /\ r.act_height >= 0 /\ r.chosen_cylinder >= 0 /\ r.chosen_paper_roll >= 0
    /\ r.wpb >= 0 /\ r.total_finish_weight >= 0 /\ r.total_weight >= 0
    /\ r.side_glue >= 0 /\ r.bottom_glue >= 0 /\ r.ink >= 0

\* C10: for every job inside the validated domain and every catalog with at
\* least one cylinder and one roll, the calculation completes and each result
\* field is a non-negative number.
C10_CalculationCompletes ==
    (CalculateDone /\ validate_fields(arg.form)
        /\ catalog.cylinders # <<>> /\ catalog.rolls # <<>>) =>
        (ret.kind = "ok" /\ NonNegativeResult(ret.value))

(***************************************************************************)
(* The application: construction, the form, and process_data step by step  *)
(* (one step per read of the clock and directory, and per file written)    *)
(***************************************************************************)
\* the dates at which the clock is read: 31 March and 1 April of the first
\* year, 1 January and 1 April of the next
ClockDates == {d \in Dates : \/ d.year = FirstYear /\ d.month = 3 /\ d.day = 31
                             \/ d.year = FirstYear /\ d.month = 4 /\ d.day = 1
                             \/ d.year = FirstYear + 1 /\ d.month = 1 /\ d.day = 1
                             \/ d.year = FirstYear + 1 /\ d.month = 4 /\ d.day = 1}

Later(d, e) == \/ d.year > e.year
               \/ d.year = e.year /\ d.month > e.month
               \/ d.year = e.year /\ d.month = e.month /\ d.day > e.day

\* what the scanned directory holds when the first application starts
StartListings == {<<>>,
                  <<FileNameOf(LabelOf(FirstYear - 1) \o <<"_", "0", "0", "0", "0", "0", "4", "2">>)>>,
                  <<FileNameOf(LabelOf(FirstYear) \o <<"_", "0", "0", "0", "0", "0", "0", "1">>)>>}

\* SAVE_DIRECTORY and BACKUP_DIRECTORY: the backup directory is the scanned one,
\* or another one, or the save directory itself
Configs == [save : {"D:/BOM"}, backup : Dirs]

\* the entries a user types: inside the validated ranges, and with no number
\* for the width
TypedForms == {[width |-> <<525>>, bottom |-> <<250>>, height |-> <<675>>,
                gsm |-> <<55>>, quantity |-> <<10000>>],
               [width |-> <<>>, bottom |-> <<250>>, height |-> <<675>>,
                gsm |-> <<55>>, quantity |-> <<10000>>]}

\* the catalogs of the reference table: one that serves the typed job, one that
\* has no roll wider than it
StartCatalogs == {LoadCatalog({250000, 400000}, {415000, 700000}),
                  LoadCatalog({250000}, {415000})}

Init ==
    /\ today \in ClockDates
    /\ fs \in {[EmptyFs EXCEPT ![ScanDir] = l] : l \in StartListings}
    /\ config \in Configs
    /\ catalog \in StartCatalogs
    /\ arg = [fn |-> "application"]
    /\ ret = Pending
    /\ pc = Off
    /\ form = [p \in Procs |-> BlankForm]
    /\ b8 = NoText
    /\ fname = NoText
    /\ label = NoText
    /\ err = NoError
    /\ seen = NoScan
    /\ saves = <<>>

\* the clock moves on
Tick ==
    /\ \E d \in ClockDates : Later(d, today) /\ today' = d
    /\ UNCHANGED <<fs, config, catalog, arg, ret, pc, form, b8, fname, label, err, seen, saves>>

\* __init__: the window is built and the job number label computed; an
\* exception ends the program
Start(p) ==
    /\ pc[p] = "off"
    /\ LET r == generate_job_number(today, fs)
       IN  IF r.kind = "ok"
           THEN /\ label' = [label EXCEPT ![p] = r.value]
                /\ pc' = [pc EXCEPT ![p] = "idle"]
                /\ err' = err
           ELSE /\ label' = label
                /\ pc' = [pc EXCEPT ![p] = "crashed"]
                /\ err' = [err EXCEPT ![p] = r.kind]
    /\ UNCHANGED <<today, fs, config, catalog, arg, ret, form, b8, fname, seen, saves>>

\* the user fills in the job details
Enter(p) ==
    /\ pc[p] = "idle"
    /\ \E f \in TypedForms : f # form[p] /\ form' = [form EXCEPT ![p] = f]
    /\ UNCHANGED <<today, fs, config, catalog, arg, ret, pc, b8, fname, label, err,
                   seen, saves>>

\* process_data returns: its workbook and file name are gone
Return(p) ==
    /\ pc' = [pc EXCEPT ![p] = "idle"]
    /\ b8' = [b8 EXCEPT ![p] = <<>>]
    /\ fname' = [fname EXCEPT ![p] = <<>>]
    /\ seen' = [seen EXCEPT ![p] = Unscanned]

\* an exception in the Submit callback: Tk reports it and the main loop goes on
Fail(p, e) ==
    /\ err' = [err EXCEPT ![p] = e]
    /\ Return(p)

\* the message of the error box validate_fields shows before it returns False
InvalidJobDetails == "Invalid job details"

\* process_data up to the template: validation, then the calculation
Submit(p) ==
    /\ pc[p] = "idle"
    /\ Len(saves) < MaxJobs
    /\ IF ~validate_fields(form[p])
       THEN /\ err' = [err EXCEPT ![p] = InvalidJobDetails]
            /\ UNCHANGED <<pc, b8, fname, seen>>
       ELSE LET r == Calculate(catalog, form[p])
            IN  IF r.kind = "ok"
                THEN /\ pc' = [pc EXCEPT ![p] = "sheet"]
                     /\ err' = [err EXCEPT ![p] = ""]
                     /\ UNCHANGED <<b8, fname, seen>>
                ELSE Fail(p, r.kind)
    /\ UNCHANGED <<today, fs, config, catalog, arg, ret, form, label, saves>>

\* sheet["B8"].value = self.generate_job_number()
WriteB8(p) ==
    /\ pc[p] = "sheet"
    /\ LET r == generate_job_number(today, fs)
       IN  IF r.kind = "ok"
           THEN /\ b8' = [b8 EXCEPT ![p] = r.value]
                /\ seen' = [seen EXCEPT ![p] = Scan(today, fs)]
                /\ pc' = [pc EXCEPT ![p] = "name"]
                /\ UNCHANGED <<err, fname>>
           ELSE Fail(p, r.kind)
    /\ UNCHANGED <<today, fs, config, catalog, arg, ret, form, label, saves>>

\* new_filename = f"{self.generate_job_number()}.xlsx"
NameFile(p) ==
    /\ pc[p] = "name"
    /\ LET r == generate_job_number(today, fs)
       IN  IF r.kind = "ok"
           THEN /\ fname' = [fname EXCEPT ![p] = r.value]
                /\ seen' = [seen EXCEPT ![p] = Scan(today, fs)]
                /\ pc' = [pc EXCEPT ![p] = "save"]
                /\ UNCHANGED <<err, b8>>
           ELSE Fail(p, r.kind)
    /\ UNCHANGED <<today, fs, config, catalog, arg, ret, form, label, saves>>

\* a directory after a file is written: a new name is the latest file; an
\* existing name is replaced, and keeps its creation time or not (getctime is
\* the creation time on Windows, the time of the last change elsewhere)
Written(listing, name) ==
    LET other(x) == x # name
    IN  IF \A i \in 1..Len(listing) : listing[i] # name
        THEN {Append(listing, name)}
        ELSE {listing, Append(SelectSeq(listing, other), name)}

\* wb.save(save_path)
Save(p) ==
    /\ pc[p] = "save"
    /\ \E l \in Written(fs[config.save], FileNameOf(fname[p])) :
          fs' = [fs EXCEPT ![config.save] = l]
    /\ saves' = Append(saves, [proc |-> p, job |-> fname[p], done |-> FALSE])
    /\ pc' = [pc EXCEPT ![p] = "copy"]
    /\ UNCHANGED <<today, config, catalog, arg, ret, form, b8, fname, label, err, seen>>

\* shutil.copyfile(save_path, backup_path): SameFileError when both are one file
Copy(p) ==
    /\ pc[p] = "copy"
    /\ IF config.save = config.backup
       THEN /\ Fail(p, "SameFileError")
            /\ fs' = fs
       ELSE /\ \E l \in Written(fs[config.backup], FileNameOf(fname[p])) :
                  fs' = [fs EXCEPT ![config.backup] = l]
            /\ pc' = [pc EXCEPT ![p] = "reset"]
            /\ UNCHANGED <<err, b8, fname, seen>>
    /\ UNCHANGED <<today, config, catalog, arg, ret, form, label, saves>>

\* the last save of application p is marked as a finished submission
MarkDone(log, p) ==
    LET mine == {i \in 1..Len(log) : log[i].proc = p}
        last == CHOOSE i \in mine : \A j \in mine : j <= i
    IN  [log EXCEPT ![last].done = TRUE]

\* handle_fields: the entries are cleared, then the label is computed anew;
\* process_data ends with the success message
handle_fields(p) ==
    /\ pc[p] = "reset"
    /\ form' = [form EXCEPT ![p] = BlankForm]
    /\ LET r == generate_job_number(today, fs)
       IN  IF r.kind = "ok"
           THEN /\ label' = [label EXCEPT ![p] = r.value]
                /\ saves' = MarkDone(saves, p)
                /\ err' = err
                /\ Return(p)
           ELSE /\ Fail(p, r.kind)
                /\ UNCHANGED <<label, saves>>
    /\ UNCHANGED <<today, fs, config, catalog, arg, ret>>

\* no other application is inside a submission
Alone(p) == \A q \in Procs \ {p} : pc[q] \in {"off", "idle", "crashed"}

Next ==
    \/ Tick
    \/ \E p \in Procs :
        \/ Start(p)
        \/ Enter(p)
        \/ Submit(p)
        \/ WriteB8(p)
        \/ NameFile(p)
        \/ Save(p)
        \/ Copy(p)
        \/ handle_fields(p)

Spec == Init /\ [][Next]_vars

\* the submissions run one after another: from the first read of the directory
\* to the last file written, no other submission runs
NextSerial ==
    \/ Tick
    \/ \E p \in Procs :
        \/ Start(p)
        \/ Enter(p)
        \/ Alone(p) /\ Submit(p)
        \/ WriteB8(p)
        \/ NameFile(p)
        \/ Save(p)
        \/ Copy(p)
        \/ handle_fields(p)

SpecSerial == Init /\ [][NextSerial]_vars

(***************************************************************************)
(* Submissions: what is claimed of the job numbers they are saved under    *)
(***************************************************************************)
\* the job numbers of the finished submissions, in the order of their saves
Finished == SelectSeq(saves, LAMBDA e : e.done)

LabelPart(job) == Split(job, "_")[1]

NumberPart(job) == IntOf(Split(job, "_")[2])

\* C2: of submissions that run one after another, no two save their BOM under
\* the same job number, and within one fiscal year the number of each is that of
\* the submission before it plus 1.
C2_SerialNumbersUnique ==
    /\ \A i, j \in 1..Len(Finished) : i < j => Finished[i].job # Finished[j].job
    /\ \A i \in 1..(Len(Finished) - 1) :
          LabelPart(Finished[i].job) = LabelPart(Finished[i + 1].job) =>
              NumberPart(Finished[i + 1].job) = NumberPart(Finished[i].job) + 1

\* the job number that follows an observation of the directory
SuccessorOf(scan) ==
    LET fy == ClaimedFiscalYear(scan.date)
        parts == Split(SplitExtRoot(scan.latest), "_")
    IN  fy \o <<"_">> \o (IF scan.latest # <<>> /\ parts[1] = fy
                           THEN PadDigits(IntOf(parts[2]) + 1, 7)
                           ELSE PadDigits(1, 7))

\* both have computed the name of their file and neither has saved it
BothNamed(p, q) == p # q /\ pc[p] = "save" /\ pc[q] = "save"

\* C9: two submissions that have both named their file before either saved it,
\* from the same observation of the scanned directory, hold the same job number,
\* the successor of the identifier both observed: nothing tells them apart.
C9_SameObservationSameNumber ==
    \A p, q \in Procs :
        (BothNamed(p, q) /\ seen[p] = seen[q]) =>
            (fname[p] = fname[q] /\ fname[p] = SuccessorOf(seen[p]))

\* the collision: both observed the same latest file and hold the same job number
C9_Collision ==
    /\ BothNamed(1, 2)
    /\ seen[1] = seen[2]
    /\ seen[1].latest # <<>>
    /\ fname[1] = fname[2]

(***************************************************************************)
(* The prior identifier: which of the scanned files is incremented from    *)
(***************************************************************************)
\* the positions, in creation order, of the files the scan matches
Scanned == {i \in 1..Len(fs[ScanDir]) : MatchesXlsx(fs[ScanDir][i])}

\* the scanned file with the greatest creation time
MostRecentlyCreated ==
    fs[ScanDir][CHOOSE i \in Scanned : \A j \in Scanned : j <= i]

\* the job number derived from one file name on a date: its number plus 1 under
\* the label of the date, number 1 when its label is another one, and none
\* (<<>>) when the name does not parse
DerivedFrom(date, name) ==
    LET fy == ClaimedFiscalYear(date)
        parts == Split(SplitExtRoot(name), "_")
    IN  IF Len(parts) # 2 THEN <<>>
        ELSE IF parts[1] # fy THEN fy \o <<"_">> \o PadDigits(1, 7)
        ELSE IF IsIntLiteral(parts[2])
             THEN fy \o <<"_">> \o PadDigits(IntOf(parts[2]) + 1, 7)
             ELSE <<>>

\* C11: a job number that is returned when files were scanned is the successor
\* of the file created last among them, whatever the names or numbers of the
\* files created before it.
C11_LatestCreatedIsIncremented ==
    (JobNumberDone /\ Scanned # {} /\ ret.kind = "ok") =>
        ret.value = DerivedFrom(today, MostRecentlyCreated)

\* creation order and numeric order disagree: number 42 was created before
\* number 1 of the same fiscal year, and the job number returned is number 2
C11_OrdersDisagree ==
    /\ JobNumberDone
    /\ today.month >= 4
    /\ fs[ScanDir] = <<FileNameOf(ClaimedFiscalYear(today) \o <<"_">> \o PadDigits(42, 7)),
                       FileNameOf(ClaimedFiscalYear(today) \o <<"_">> \o PadDigits(1, 7))>>
    /\ ret = Ok(ClaimedFiscalYear(today) \o <<"_">> \o PadDigits(2, 7))

(***************************************************************************)
(* One typed form submitted: the first application is open with its        *)
(* entries typed, the second one is not started yet                        *)
(***************************************************************************)
\* a job inside every range, at the lower limits
LowForm == [width |-> <<525>>, bottom |-> <<250>>, height |-> <<675>>,
            gsm |-> <<55>>, quantity |-> <<10000>>]

\* a job inside every range, at the upper limits
HighForm == [width |-> <<1300>>, bottom |-> <<700>>, height |-> <<1775>>,
             gsm |-> <<150>>, quantity |-> <<50000>>]

\* the forms typed: the two above, and LowForm with one entry just below its
\* range, just above it, negative, or no number
DrawnForms ==
    {LowForm, HighForm}
    \cup {[LowForm EXCEPT !.width = v] : v \in {<<524>>, <<1301>>, <<>>}}
    \cup {[LowForm EXCEPT !.bottom = v] : v \in {<<249>>, <<701>>, <<>>}}
    \cup {[LowForm EXCEPT !.height = v] : v \in {<<674>>, <<1776>>, <<>>}}
    \cup {[LowForm EXCEPT !.gsm = v] : v \in {<<54>>, <<151>>, <<>>}}
    \cup {[LowForm EXCEPT !.quantity = v] : v \in {<<9999>>, <<0>>, <<-1>>, <<>>}}

InitForm ==
    /\ today \in {d \in ClockDates : d.month >= 4}
    /\ fs \in {[EmptyFs EXCEPT ![ScanDir] = l] : l \in StartListings}
    /\ config \in Configs
    /\ catalog \in StartCatalogs
    /\ arg = [fn |-> "application"]
    /\ ret = Pending
    /\ pc = [p \in Procs |-> IF p = 1 THEN "idle" ELSE "off"]
    /\ form \in {[p \in Procs |-> IF p = 1 THEN f ELSE BlankForm] : f \in DrawnForms}
    /\ b8 = NoText
    /\ fname = NoText
    /\ label = [p \in Procs |-> IF p = 1 THEN generate_job_number(today, fs).value
                                ELSE <<>>]
    /\ err = NoError
    /\ seen = NoScan
    /\ saves = <<>>

NextForm ==
    \/ Tick
    \/ \E p \in Procs :
        \/ Start(p)
        \/ Submit(p)
        \/ WriteB8(p)
        \/ NameFile(p)
        \/ Save(p)
        \/ Copy(p)
        \/ handle_fields(p)

SpecForm == InitForm /\ [][NextForm]_vars

(***************************************************************************)
(* Rejected input: what is claimed of process_data                         *)
(***************************************************************************)
\* an entry that is no number, or a number outside [lo, hi]
Outside(entry, lo, hi) == entry = <<>> \/ entry[1] < lo \/ entry[1] > hi

\* width outside 5.25..13.00, bottom outside 2.5..7.00, height outside
\* 6.75..17.75, GSM outside 55..150, quantity < 10000, or a non-numeric value
OutOfDomain(f) ==
    \/ Outside(f.width, 525, 1300)
    \/ Outside(f.bottom, 250, 700)
    \/ Outside(f.height, 675, 1775)
    \/ Outside(f.gsm, 55, 150)
    \/ f.quantity = <<>> \/ f.quantity[1] < 10000

\* C12: a submission of a form that is out of domain returns at once: nothing is
\* computed (the application stays idle, with the error box of the validation
\* and no workbook), no file is saved or backed up, the entries are not
\* reset, and the next job number is the same as before.
C12_RejectedChangesNothing ==
    [][\A p \in Procs :
          (Submit(p) /\ OutOfDomain(form[p])) =>
              /\ pc'[p] = "idle" /\ err'[p] = InvalidJobDetails
              /\ UNCHANGED <<b8, fname, fs, saves, form, label>>
              /\ generate_job_number(today', fs') = generate_job_number(today, fs)]_vars

\* a quantity of 9999 was submitted and rejected: the entries are still there and
\* no file was written
C12_Rejected ==
    /\ pc[1] = "idle"
    /\ err[1] = InvalidJobDetails
    /\ form[1] = [LowForm EXCEPT !.quantity = <<9999>>]
    /\ saves = <<>>
    /\ fs[config.save] = <<>>
    /\ label[1] = generate_job_number(today, fs).value

(***************************************************************************)
(* The job number inside the document and the one of its file name         *)
(***************************************************************************)
\* the step that ends a successful run of process_data for application p
Succeeds(p) == pc[p] = "reset" /\ saves' = MarkDone(saves, p)

\* C13: when a run of process_data ends successfully, the job number it wrote
\* into cell B8 of the document is the job number of the file it saved.
C13_SheetMatchesFileName ==
    [][\A p \in Procs : Succeeds(p) => b8[p] = fname[p]]_vars

====
